---- MODULE Spec2Model ----
(***************************************************************************)
(* Model of the make_data package: the standard and the vision quiz        *)
(* generators (quiz_generator.py), the command dispatcher (__main__.py)    *)
(* and the tabular file-format converter (format_converter.py).            *)
(*                                                                         *)
(* Python values are represented as follows.                               *)
(*   - an atomic text (a Korean term, a column value nobody looks into)    *)
(*     is a TLA+ string;                                                   *)
(*   - a text the code looks into (str.replace, str.strip, re.split,       *)
(*     the `in` operator) is a sequence of one-character strings;          *)
(*   - an Optional[...] argument is a sequence of length <= 1: <<>> is     *)
(*     None, <<v>> is the value v;                                         *)
(*   - a float that is an integer divided by 100 is that integer           *)
(*     (hundredths).                                                       *)
(***************************************************************************)
EXTENDS Integers, Sequences, FiniteSets, TLC

VARIABLES
    clsQ,       \* QuizGenerator's class attributes
    clsV,       \* VisionQuizGenerator's own class attributes (<<>> = inherited)
    sarg,       \* the arguments of the latest QuizGenerator.config call
    sdata,      \* standard generator instance: self._data
    spc,        \* standard generator: position of the caller
    spos,       \* standard generator: next row of the list comprehension
    sdistractors, \* standard generator: what _get_distractors returned last
    squizzes,   \* standard generator: records built so far / returned
    vdata,      \* vision generator instance: self._data
    vpc,        \* vision generator: position of the caller
    vpos,       \* vision generator: next row of the generator expression
    vquizzes,   \* vision generator: records built so far / returned
    vlog,       \* vision generator: warnings logged
    vdirs,      \* directories os.makedirs has created
    vfiles,     \* image files written: path and whether the image was decoded
    mdo,        \* main: the command of the call
    mcalled,    \* main: the functions the call has run
    mraised,    \* main: whether the call raised ValueError
    cdf,        \* converter instance: self._df (the path its data was read from)
    cfiles,     \* converter: output files written, with the data they hold
    cin,        \* converter: input_path of the latest call
    cout,       \* converter: output_path of the latest call
    cresult,    \* converter: how the latest call ended
    ccalls,     \* converter: number of calls made
    pfun,       \* text functions: the function of the latest call
    pin,        \* text functions: its argument
    pout,       \* text functions: what it returned
    kcall,      \* config calls: the class and keyword arguments of the latest
    brun,       \* entry points: the entry point running ("none" when idle)
    bargs,      \* entry points: the arguments of the running entry point
    bruns,      \* entry points: number of entry-point calls made
    bpending,   \* vision_quiz_gen: the .xlsx files still to process
    bfile,      \* entry points: the source file of the generator instance
    bsheet,     \* entry points: the sheet load_data read the instance's data from
    bpath,      \* save_quizzes_to_excel: the output_path it computed
    bbooks      \* the spreadsheets written: path and table

stdVars == <<clsQ, clsV, sarg, sdata, spc, spos, sdistractors, squizzes>>

visVars == <<vdata, vpc, vpos, vquizzes, vlog, vdirs, vfiles>>

mainVars == <<mdo, mcalled, mraised>>

convVars == <<cdf, cfiles, cin, cout, cresult, ccalls>>

parseVars == <<pfun, pin, pout>>

configVars == <<kcall>>

batchVars == <<brun, bargs, bruns, bpending, bfile, bsheet, bpath, bbooks>>

vars == <<stdVars, visVars, mainVars, convVars, parseVars, configVars,
          batchVars>>

notStd == <<visVars, mainVars, convVars, parseVars, configVars, batchVars>>

notVis == <<stdVars, mainVars, convVars, parseVars, configVars, batchVars>>

notMain == <<stdVars, visVars, convVars, parseVars, configVars, batchVars>>

notConv == <<stdVars, visVars, mainVars, parseVars, configVars, batchVars>>

notConfig == <<sarg, sdata, spc, spos, sdistractors, squizzes, visVars,
               mainVars, convVars, parseVars, batchVars>>

notParse == <<stdVars, visVars, mainVars, convVars, configVars, batchVars>>

(***************************************************************************)
(* Bounds of the model.                                                    *)
(***************************************************************************)
MaxRows == 3

MaxVisionRows == 2

MaxFragments == 2

MaxCalls == 2

MaxText == 4

MaxSegments == 3

MaxPayload == 6

MaxKwargs == 2

MaxRuns == 2

MaxFiles == 2

\* The Korean terms a source table may hold.
Terms == {"k1", "k2", "k3"}

\* The loanword of the i-th source row.
ForeignWords == <<"f1", "f2", "f3", "f4", "f5">>

(***************************************************************************)
(* Generic helpers.                                                        *)
(***************************************************************************)
None == <<>>

Some(v) == <<v>>

\* Python truthiness of an Optional[str] / Optional[int] argument.
TruthyStr(a) == Len(a) = 1 /\ a[1] # ""

TruthyInt(a) == Len(a) = 1 /\ a[1] # 0

Range(s) == {s[i] : i \in DOMAIN s}

\* Injective sequences of length k over the set S.
InjSeqs(S, k) == {s \in [1..k -> S] : \A i, j \in 1..k : s[i] = s[j] => i = j}

\* chr(n) for the capital letters.
Letters == <<"A", "B", "C", "D", "E", "F", "G", "H", "I", "J", "K", "L", "M",
             "N", "O", "P", "Q", "R", "S", "T", "U", "V", "W", "X", "Y", "Z">>

Chr(n) == Letters[n - 64]

\* [chr(65 + i) for i in range(len(options))]
Labels(options) == [i \in 1..Len(options) |-> Chr(65 + (i - 1))]

\* Mutant: the key is the first label whenever some option matches.
FirstLabel_always_first(labels, options, answer) ==
    IF \A i \in 1..Len(options) : options[i] # answer THEN <<>>
    ELSE <<labels[1]>>

\* The first label whose option equals the answer; <<>> when there is none
\* (the [0] of the code raises IndexError then).
FirstLabel(labels, options, answer) ==
    LET hits == {i \in 1..Len(options) : options[i] = answer}
    IN  IF hits = {} THEN None
        ELSE Some(labels[CHOOSE i \in hits : \A j \in hits : i <= j])

(***************************************************************************)
(* Class-level configuration (quiz_generator.py, class attributes).        *)
(***************************************************************************)
\* QuizGenerator's class attributes as the class statement sets them.
QuizGeneratorDefaults ==
    [template_path |-> "templates.yaml", template_key |-> "quiz_gen",
     change_keyword |-> "LOANWORD", sheet |-> "Sheet1",
     num_distractors |-> 3, output_dir |-> ""]

AttrNames == DOMAIN QuizGeneratorDefaults

\* The default arguments of QuizGenerator.config.
ConfigDefaults ==
    [yaml_path |-> Some("templates.yaml"), yaml_key |-> Some("quiz_gen"),
     change_keyword |-> Some("LOANWORD"), sheet |-> Some("Sheet1"),
     num_distractors |-> Some(3), output_dir |-> None]

\* QuizGenerator.config: each attribute takes the argument when the
\* argument is truthy and keeps its current value otherwise.  cur holds the
\* attribute values cls sees, a the arguments of the call.
QuizGenerator_config(cur, a) ==
    [template_path   |-> IF TruthyStr(a.yaml_path) THEN a.yaml_path[1]
                         ELSE cur.template_path,
     template_key    |-> IF TruthyStr(a.yaml_key) THEN a.yaml_key[1]
                         ELSE cur.template_key,
     change_keyword  |-> IF TruthyStr(a.change_keyword) THEN a.change_keyword[1]
                         ELSE cur.change_keyword,
     sheet           |-> IF TruthyStr(a.sheet) THEN a.sheet[1] ELSE cur.sheet,
     num_distractors |-> IF TruthyInt(a.num_distractors) THEN a.num_distractors[1]
                         ELSE cur.num_distractors,
     output_dir      |-> IF TruthyStr(a.output_dir) THEN a.output_dir[1]
                         ELSE cur.output_dir]

(***************************************************************************)
(* Standard mode: QuizGenerator.                                           *)
(***************************************************************************)
\* pat occurs in s at position i.
OccursAt(s, i, pat) ==
    /\ i + Len(pat) - 1 <= Len(s)
    /\ \A k \in 1..Len(pat) : s[i + k - 1] = pat[k]

\* The `in` operator on strings.
Contains(s, pat) == \E i \in 1..(Len(s) + 1) : OccursAt(s, i, pat)

RECURSIVE ReplaceFrom(_, _, _, _)
ReplaceFrom(s, i, old, new) ==
    IF i > Len(s) THEN <<>>
    ELSE IF OccursAt(s, i, old)
         THEN new \o ReplaceFrom(s, i + Len(old), old, new)
         ELSE <<s[i]>> \o ReplaceFrom(s, i + 1, old, new)

\* str.replace(old, new): every non-overlapping occurrence, left to right.
Replace(s, old, new) == ReplaceFrom(s, 1, old, new)

\* load_template(): the question template "LOANWORD?" of the configured
\* key, as the sequence of its pieces of text.
load_template == [question |-> <<"LOAN", "WORD", "?">>]

\* str(cls._change_keyword) as pieces of text.
KeywordPieces(keyword) ==
    IF keyword = "LOANWORD" THEN <<"LOAN", "WORD">> ELSE <<keyword>>

\* template.replace(str(keyword), str(loanword)): every occurrence of the
\* keyword in the template, also inside a longer word.
ReplaceKeyword(template, keyword, loanword) ==
    Replace(template, KeywordPieces(keyword), <<loanword>>)

\* Mutant: the pool keeps the rows of the correct answer.
all_korean_words_unfiltered(data, correct_answer) ==
    [i \in 1..Len(data) |-> data[i][2]]

\* all_korean_words = [pair[1] for pair in data if pair[1] != correct_answer]
all_korean_words(data, correct_answer) ==
    LET kor == [i \in 1..Len(data) |-> data[i][2]]
        Keep(w) == w # correct_answer
    IN  SelectSeq(kor, Keep)

\* Mutant: a sample that truncates to the population instead of raising.
random_sample_truncating(population, k) ==
    LET m == IF k > Len(population) THEN Len(population) ELSE k
    IN  IF k < 0 THEN {}
        ELSE {[i \in 1..m |-> population[idx[i]]] :
                idx \in InjSeqs(1..Len(population), m)}

\* random.sample(population, k): the lists it can return, the entries at k
\* distinct positions of the population in any order; it raises ValueError
\* (no list: the empty set) when k is negative or larger than the population.
random_sample(population, k) ==
    IF k < 0 \/ k > Len(population) THEN {}
    ELSE {[i \in 1..k |-> population[idx[i]]] :
            idx \in InjSeqs(1..Len(population), k)}

\* _get_distractors: the lists it can return, none when it raises.
get_distractors(data, correct_answer, num_distractors) ==
    random_sample(all_korean_words(data, correct_answer), num_distractors)

\* The orders random.shuffle can leave a list of m elements in.
ShuffleOrders(m) == InjSeqs(1..m, m)

\* generate_quiz once _get_distractors has returned distractors, under the
\* shuffle order perm.
generate_quiz(attrs, loanword, correct_answer, distractors, perm) ==
    LET unshuffled  == distractors \o <<correct_answer>>
        options     == [i \in 1..Len(unshuffled) |-> unshuffled[perm[i]]]
        labels      == Labels(options)
        correct_label == FirstLabel(labels, options, correct_answer)
    IN  [question |-> ReplaceKeyword(load_template.question,
                                     attrs.change_keyword, loanword),
         options  |-> [text |-> options, label |-> labels],
         answer   |-> [text |-> correct_answer, key |-> correct_label[1]]]

\* The source tables load_data can return: a column of Korean terms beside
\* the column of loanwords.
Tables ==
    UNION {[1..n -> Terms] : n \in 0..MaxRows}

\* The arguments QuizGenerator.config is called with.
StdConfigArgs ==
    {[ConfigDefaults EXCEPT !.num_distractors = n] :
        n \in {None, Some(0), Some(1), Some(2), Some(3)}}

StdInit ==
    /\ clsQ = QuizGeneratorDefaults
    /\ clsV = [n \in AttrNames \cup {"image_dir"} |-> None]
    /\ sarg = None
    /\ sdata = <<>>
    /\ spc = "new"
    /\ spos = 0
    /\ sdistractors = <<>>
    /\ squizzes = <<>>

VisInit ==
    /\ vdata = <<>>
    /\ vpc = "new"
    /\ vpos = 0
    /\ vquizzes = <<>>
    /\ vlog = <<>>
    /\ vdirs = {}
    /\ vfiles = {}

MainInit ==
    /\ mdo = None
    /\ mcalled = <<>>
    /\ mraised = FALSE

ConvInit ==
    /\ cdf = None
    /\ cfiles = {}
    /\ cin = None
    /\ cout = None
    /\ cresult = "none"
    /\ ccalls = 0

ParseInit ==
    /\ pfun = "none"
    /\ pin = <<>>
    /\ pout = <<>>

ConfigInit == kcall = None

BatchInit ==
    /\ brun = "none"
    /\ bargs = None
    /\ bruns = 0
    /\ bpending = <<>>
    /\ bfile = None
    /\ bsheet = None
    /\ bpath = None
    /\ bbooks = {}

Init ==
    /\ StdInit /\ VisInit /\ MainInit /\ ConvInit
    /\ ParseInit /\ ConfigInit /\ BatchInit

\* QuizGenerator.config(...), called before the batch, any number of times,
\* before or after the instance is constructed.
StdConfig ==
    /\ spc \in {"new", "ready"}
    /\ \E a \in StdConfigArgs :
          /\ clsQ' = QuizGenerator_config(clsQ, a)
          /\ sarg' = Some(a)
    /\ UNCHANGED <<clsV, sdata, spc, spos, sdistractors, squizzes>>
    /\ UNCHANGED notStd

\* QuizGenerator(excel_path): __init__ stores what load_data returns.
StdConstruct ==
    /\ spc = "new"
    /\ \E kor \in Tables :
          sdata' = [i \in 1..Len(kor) |-> <<ForeignWords[i], kor[i]>>]
    /\ spc' = "ready"
    /\ UNCHANGED <<clsQ, clsV, sarg, spos, sdistractors, squizzes>>
    /\ UNCHANGED notStd

\* generator.data = value: the property setter replaces the loaded rows.
StdSetData ==
    /\ spc = "ready"
    /\ \E kor \in Tables :
          sdata' = [i \in 1..Len(kor) |-> <<ForeignWords[i], kor[i]>>]
    /\ UNCHANGED <<clsQ, clsV, sarg, spc, spos, sdistractors, squizzes>>
    /\ UNCHANGED notStd

\* generate_all_quizzes(): the list comprehension starts.
StdGenerateAll ==
    /\ spc = "ready"
    /\ spc' = IF Len(sdata) = 0 THEN "done" ELSE "gen"
    /\ spos' = IF Len(sdata) = 0 THEN 0 ELSE 1
    /\ sdistractors' = <<>>
    /\ squizzes' = <<>>
    /\ UNCHANGED <<clsQ, clsV, sarg, sdata>>
    /\ UNCHANGED notStd

\* One generate_quiz call of the list comprehension returns a record.
StdGenerateQuiz ==
    /\ spc = "gen"
    /\ LET loanword == sdata[spos][1]
           answer   == sdata[spos][2]
       IN  \E distractors \in get_distractors(sdata, answer, clsQ.num_distractors) :
             \E perm \in ShuffleOrders(Len(distractors) + 1) :
                /\ sdistractors' = distractors
                /\ squizzes' = Append(squizzes,
                      generate_quiz(clsQ, loanword, answer, distractors, perm))
    /\ spc' = IF spos = Len(sdata) THEN "done" ELSE "gen"
    /\ spos' = IF spos = Len(sdata) THEN 0 ELSE spos + 1
    /\ UNCHANGED <<clsQ, clsV, sarg, sdata>>
    /\ UNCHANGED notStd

\* One generate_quiz call raises (random.sample's ValueError): the
\* exception leaves generate_all_quizzes, which returns nothing.
StdGenerateQuizRaises ==
    /\ spc = "gen"
    /\ get_distractors(sdata, sdata[spos][2], clsQ.num_distractors) = {}
    /\ spc' = "error"
    /\ spos' = 0
    /\ sdistractors' = <<>>
    /\ squizzes' = <<>>
    /\ UNCHANGED <<clsQ, clsV, sarg, sdata>>
    /\ UNCHANGED notStd

StdNext ==
    \/ StdConfig
    \/ StdConstruct
    \/ StdSetData
    \/ StdGenerateAll
    \/ StdGenerateQuiz
    \/ StdGenerateQuizRaises

SpecStd == Init /\ [][StdNext]_vars

(***************************************************************************)
(* Text helpers: a text is a sequence of one-character strings.            *)
(***************************************************************************)
LowerLetters == <<"a", "b", "c", "d", "e", "f", "g", "h", "i", "j", "k", "l", "m",
                  "n", "o", "p", "q", "r", "s", "t", "u", "v", "w", "x", "y", "z">>

Digits == <<"0", "1", "2", "3", "4", "5", "6", "7", "8", "9">>

IsDigit(c) == \E d \in 1..10 : Digits[d] = c

DigitVal(c) == (CHOOSE d \in 1..10 : Digits[d] = c) - 1

\* The characters str.strip() removes.
IsSpace(c) == c \in {" ", "\n", "\t"}

\* str.lower(), character by character.
LowerChar(c) ==
    IF \E i \in 1..26 : Letters[i] = c
    THEN LowerLetters[CHOOSE i \in 1..26 : Letters[i] = c]
    ELSE c

Lower(s) == [i \in 1..Len(s) |-> LowerChar(s[i])]

\* str.strip()
Strip(s) ==
    LET keep == {i \in 1..Len(s) : ~IsSpace(s[i])}
    IN  IF keep = {} THEN <<>>
        ELSE SubSeq(s, CHOOSE i \in keep : \A j \in keep : i <= j,
                       CHOOSE i \in keep : \A j \in keep : j <= i)

\* The last position of the run of digits that starts at i.
DigitRunEnd(s, i) ==
    CHOOSE j \in i..Len(s) :
        /\ \A k \in i..j : IsDigit(s[k])
        /\ j = Len(s) \/ ~IsDigit(s[j + 1])

RECURSIVE DecimalValue(_)
DecimalValue(ds) ==
    IF ds = <<>> THEN 0
    ELSE DecimalValue(SubSeq(ds, 1, Len(ds) - 1)) * 10 + DigitVal(ds[Len(ds)])

RECURSIVE SplitFrom(_, _, _)
SplitFrom(s, i, start) ==
    IF i > Len(s) THEN <<SubSeq(s, start, Len(s))>>
    ELSE IF IsDigit(s[i])
         THEN LET j == DigitRunEnd(s, i)
              IN  IF j + 2 <= Len(s) /\ s[j + 1] = "." /\ s[j + 2] = "\n"
                  THEN <<SubSeq(s, start, i - 1)>> \o SplitFrom(s, j + 3, j + 3)
                  ELSE SplitFrom(s, j + 1, start)
         ELSE SplitFrom(s, i + 1, start)

\* re.split(r'\d+\.\n', s)
ReSplit(s) == SplitFrom(s, 1, 1)

\* Concatenation of a sequence of texts.
RECURSIVE Concat(_)
Concat(ss) == IF ss = <<>> THEN <<>> ELSE Head(ss) \o Concat(Tail(ss))

(***************************************************************************)
(* Vision mode: VisionQuizGenerator.                                       *)
(***************************************************************************)
\* The phrase "[포인트 모으기 및 사용법]", one indivisible piece of text.
PointPhrase == <<"[P]">>

\* TARGET of _split_queries: a long sentence that ends with that phrase.
TARGET == <<"[T]">> \o PointPhrase

\* The marker "<문제 해설>" of an explanation, one indivisible piece of text.
ExplanationMarker == <<"<E>">>

\* "1. ", "2. ", ...: an enumerant of a raw answer.
Enumerant(d) == <<d, ".", " ">>

\* The attribute values VisionQuizGenerator sees: its own where config has
\* set them, QuizGenerator's otherwise.
VisionAttrs ==
    [n \in AttrNames |-> IF clsV[n] # None THEN clsV[n][1] ELSE clsQ[n]]

\* The default arguments of VisionQuizGenerator.config.
VisionConfigDefaults ==
    [yaml_path |-> Some("templates.yaml"), sheet |-> Some("Sheet1"),
     output_dir |-> None, image_output_dir |-> Some("img")]

\* VisionQuizGenerator.config: super().config with the three arguments it
\* forwards, run on VisionQuizGenerator, then _image_dir.
VisionQuizGenerator_config(a) ==
    LET new == QuizGenerator_config(VisionAttrs,
                   [ConfigDefaults EXCEPT !.yaml_path = a.yaml_path,
                                          !.sheet = a.sheet,
                                          !.output_dir = a.output_dir])
    IN  [n \in AttrNames \cup {"image_dir"} |->
            IF n = "image_dir" THEN Some(a.image_output_dir) ELSE Some(new[n])]

\* The first line of generate_quiz: the normalized correct answer.
NormalizeAnswer(correct_answer) ==
    LET r1 == Replace(correct_answer, Enumerant("1"), <<>>)
        r2 == Replace(r1, Enumerant("2"), <<>>)
        r3 == Replace(r2, Enumerant("3"), <<>>)
        r4 == Replace(r3, Enumerant("4"), <<>>)
        r5 == Replace(r4, PointPhrase, <<>>)
    IN  Lower(Strip(r5))

\* Mutant: the empty segments are kept.
split_queries_keep_empty(queries) ==
    LET parts == ReSplit(Replace(queries, TARGET, <<>>))
    IN  [i \in 1..Len(parts) |-> Strip(parts[i])]

\* _split_queries
split_queries(queries) ==
    LET parts == ReSplit(Replace(queries, TARGET, <<>>))
        stripped == [i \in 1..Len(parts) |-> Strip(parts[i])]
        NonEmpty(line) == line # <<>>
    IN  SelectSeq(stripped, NonEmpty)

\* options = [option.strip().lower() for option in cls._split_queries(queries)]
VisionOptions(queries) ==
    LET lines == split_queries(queries)
    IN  [i \in 1..Len(lines) |-> Lower(Strip(lines[i]))]

\* _percent2float: the first run of digits divided by 100, in hundredths;
\* 0.0 and a warning when the text holds no digit.
percent2float(percent) ==
    LET at == {i \in 1..Len(percent) : IsDigit(percent[i])}
        first == CHOOSE i \in at : \A j \in at : i <= j
    IN  IF at = {} THEN [value |-> 0, warned |-> TRUE]
        ELSE [value |-> DecimalValue(SubSeq(percent, first,
                                            DigitRunEnd(percent, first))),
              warned |-> FALSE]

\* The characters 년, 월 and 일 of the date format.
Nyeon == "nyeon"

Wol == "wol"

Il == "il"

\* The numbers strptime reads for %Y, %m and %d, with strftime's output.
YearTexts == [t \in {"2022"} |-> t]

MonthTexts == [t \in {"04", "4", "12"} |-> IF t = "4" THEN "04" ELSE t]

DayTexts == [t \in {"24", "03", "3"} |-> IF t = "3" THEN "03" ELSE t]

\* _convert_time: strptime(date, "%Y년%m월%d일").strftime("%Y-%m-%d");
\* <<>> when strptime raises ValueError.
convert_time(date) ==
    IF /\ Len(date) = 6
       /\ date[2] = Nyeon /\ date[4] = Wol /\ date[6] = Il
       /\ date[1] \in DOMAIN YearTexts
       /\ date[3] \in DOMAIN MonthTexts
       /\ date[5] \in DOMAIN DayTexts
    THEN Some(<<YearTexts[date[1]], "-", MonthTexts[date[3]], "-",
                DayTexts[date[5]]>>)
    ELSE None

\* Mutant: the padding is appended without testing missing_padding.
pad_base64_unconditional(img_byte) ==
    img_byte \o [i \in 1..(4 - (Len(img_byte) % 4)) |-> "="]

\* The padding step of _decode_img (the same for str and bytes): "=" is
\* appended 4 - len % 4 times when len % 4 is not zero.
pad_base64(img_byte) ==
    LET missing_padding == Len(img_byte) % 4
    IN  IF missing_padding # 0
        THEN img_byte \o [i \in 1..(4 - missing_padding) |-> "="]
        ELSE img_byte

\* A base64 payload of len data characters.
Payload(len) == [i \in 1..len |-> "Q"]

\* The length of the base64 payload after _decode_img has padded it.
PaddedLength(len) == Len(pad_base64(Payload(len)))

\* base64.b64decode raises on a padded payload of len data characters.
DecodeRaises(len) == len % 4 = 1

\* Mutant: only a text payload counts as an image.
HasImage_str_only(image) == image.type = "str" /\ image.len > 0

\* image and isinstance(image, (str, bytes)): a NaN cell is a float.
HasImage(image) == image.type \in {"str", "bytes"} /\ image.len > 0

\* _decode_img: the directory made, the file opened (empty until the decoded
\* bytes are written), and the path returned unless b64decode raises.  For
\* a falsy payload (noop) it returns the payload at once and does none of it.
decode_img(image, output_dir, field, name, date, number) ==
    LET image_path == [dir |-> output_dir, field |-> field, name |-> name,
                       date |-> date, number |-> number]
    IN  [noop   |-> image.len = 0,
         dir    |-> output_dir,
         file   |-> [path |-> image_path, decoded |-> ~DecodeRaises(image.len)],
         padded |-> PaddedLength(image.len),
         raises |-> DecodeRaises(image.len),
         path   |-> image_path]

\* The explanation of the record.
NormalizeExplanation(explanation) ==
    LET text == IF explanation = None THEN <<>> ELSE explanation[1]
    IN  IF Contains(text, ExplanationMarker)
        THEN Strip(Replace(text, ExplanationMarker, <<>>))
        ELSE text

\* The record generate_quiz returns for a row whose answer was found, whose
\* image (if any) was decoded to decoded_image and whose date converts.
vision_generate_quiz(row, decoded_image) ==
    LET correct_answer == NormalizeAnswer(row.correct_answer)
        options == VisionOptions(row.queries)
        labels  == Labels(options)
        correct_label == FirstLabel(labels, options, correct_answer)
    IN  [question |-> row.question,
         image    |-> decoded_image,
         options  |-> [text |-> options, label |-> labels],
         answer   |-> [text |-> correct_answer, key |-> correct_label[1]],
         explanation |-> NormalizeExplanation(row.explanation),
         rate     |-> percent2float(row.rate).value,
         field    |-> row.field,
         name     |-> row.name,
         date     |-> convert_time(row.date)[1],
         subject  |-> row.subject,
         vision   |-> IF decoded_image # None THEN 1 ELSE 0]

\* The answer of the row is none of its options: the IndexError branch.
AnswerMissing(row) ==
    LET options == VisionOptions(row.queries)
    IN  FirstLabel(Labels(options), options,
                   NormalizeAnswer(row.correct_answer)) = None

\* A raw option field: "1.\n<text>\n2.\n<text>\n..." for the given texts.
RawQueries(texts) ==
    Concat([i \in 1..Len(texts) |->
                <<Digits[i + 1], ".", "\n">> \o texts[i] \o <<"\n">>])

\* Raw option fields of the source rows: two options; two options that are
\* the same text once trimmed and lowercased; three options; two options
\* followed by the boilerplate sentence; a field with no enumerant; an
\* empty field.
QueriesAB == RawQueries(<<<<"a">>, <<"b">>>>)

QueriesSame == RawQueries(<<<<"A">>, <<"a", " ">>>>)

QueriesBAC == RawQueries(<<<<"b">>, <<" ", "a">>, <<"c">>>>)

\* The raw option field and the raw answer of the source rows.
VisionQueriesAnswers ==
    {<<QueriesAB, Enumerant("1") \o <<"a">>>>,
     <<QueriesAB, Enumerant("2") \o <<"B">>>>,
     <<QueriesAB, <<"d">>>>,
     <<QueriesSame, Enumerant("1") \o <<"a">>>>,
     <<QueriesBAC, Enumerant("3") \o <<"c">> \o PointPhrase>>,
     <<QueriesBAC, Enumerant("2") \o <<"a">>>>,
     <<QueriesAB \o TARGET, Enumerant("2") \o <<"b">>>>,
     <<<<"a", "\n", "b">>, Enumerant("1") \o <<"a">>>>,
     <<<<>>, Enumerant("1") \o <<"a">>>>}

\* The raw rate texts of the source rows: "82%", "100%", "0%", "150%",
\* "-5%" and "no data".
VisionRates ==
    {<<"8", "2", "%">>, <<"1", "0", "0", "%">>, <<"0", "%">>,
     <<"1", "5", "0", "%">>, <<"-", "5", "%">>,
     <<"n", "o", " ", "d", "a", "t", "a">>}

\* The image cells of the source rows: an empty cell (NaN), an empty text,
\* and base64 payloads of some lengths as text or bytes.
VisionImages ==
    {[type |-> "float", len |-> 0], [type |-> "str", len |-> 0],
     [type |-> "str", len |-> 4], [type |-> "str", len |-> 6],
     [type |-> "bytes", len |-> 7], [type |-> "str", len |-> 5]}

\* The dates of the source rows; the last two do not match the format.
VisionDates ==
    {<<"2022", Nyeon, "04", Wol, "24", Il>>,
     <<"2022", Nyeon, "4", Wol, "3", Il>>,
     <<"2022", "-", "04", "-", "24">>,
     <<"2022", Nyeon, "13", Wol, "24", Il>>}

\* The explanation cells: an empty cell (NaN), a text, a text with the marker.
VisionExplanations ==
    {None, Some(<<"x">>), Some(ExplanationMarker \o <<" ", "x", " ">>)}

BaseRow ==
    [number |-> 0, question |-> "", queries |-> QueriesAB,
     image |-> [type |-> "float", len |-> 0],
     correct_answer |-> Enumerant("1") \o <<"a">>,
     explanation |-> None, rate |-> <<"8", "2", "%">>,
     field |-> "CBT", name |-> "exam",
     date |-> <<"2022", Nyeon, "04", Wol, "24", Il>>, subject |-> "subject"]

\* The rows a source table is made of (number and question are set per row).
VisionRows ==
    {[BaseRow EXCEPT !.queries = qa[1], !.correct_answer = qa[2]] :
        qa \in VisionQueriesAnswers}
    \cup {[BaseRow EXCEPT !.rate = r] : r \in VisionRates}
    \cup {[BaseRow EXCEPT !.image = im] : im \in VisionImages}
    \cup {[BaseRow EXCEPT !.image = im, !.correct_answer = <<"d">>] :
            im \in {[type |-> "str", len |-> 4], [type |-> "str", len |-> 5]}}
    \cup {[BaseRow EXCEPT !.date = d] : d \in VisionDates}
    \cup {[BaseRow EXCEPT !.explanation = e] : e \in VisionExplanations}

\* The question of the i-th source row.
VisionQuestions == <<"q1", "q2", "q3", "q4">>

\* The source tables VisionQuizGenerator.load_data can return.
VisionTables == UNION {[1..n -> VisionRows] : n \in 0..MaxVisionRows}

\* The arguments VisionQuizGenerator.config is called with.
VisionConfigArgs ==
    {[VisionConfigDefaults EXCEPT !.image_output_dir = d] :
        d \in {Some("output/img")}}

\* open(image_path, "wb"): the file replaces one of the same path.
WriteFile(files, f) == {g \in files : g.path # f.path} \cup {f}

\* VisionQuizGenerator.config(...), called before the batch.
VisConfig ==
    /\ vpc \in {"new", "ready"}
    /\ \E a \in VisionConfigArgs : clsV' = VisionQuizGenerator_config(a)
    /\ UNCHANGED <<clsQ, sarg, sdata, spc, spos, sdistractors, squizzes>>
    /\ UNCHANGED notStd

\* VisionQuizGenerator(excel_path): __init__ stores what load_data returns.
VisConstruct ==
    /\ vpc = "new"
    /\ \E table \in VisionTables :
          vdata' = [i \in 1..Len(table) |->
                      [table[i] EXCEPT !.number = i,
                                       !.question = VisionQuestions[i]]]
    /\ vpc' = "ready"
    /\ UNCHANGED <<vpos, vquizzes, vlog, vdirs, vfiles>>
    /\ UNCHANGED notVis

\* The tables a caller assigns to the data property: no row; one row; a row
\* whose answer is no option followed by a row with an image.
AssignedTables ==
    {<<>>,
     <<BaseRow>>,
     <<[BaseRow EXCEPT !.correct_answer = <<"d">>],
       [BaseRow EXCEPT !.image = [type |-> "str", len |-> 4]]>>}

\* generator.data = value: the property setter replaces the loaded rows.
VisSetData ==
    /\ vpc = "ready"
    /\ \E table \in AssignedTables :
          vdata' = [i \in 1..Len(table) |->
                      [table[i] EXCEPT !.number = i,
                                       !.question = VisionQuestions[i]]]
    /\ UNCHANGED <<vpc, vpos, vquizzes, vlog, vdirs, vfiles>>
    /\ UNCHANGED notVis

\* generate_all_quizzes(): the generator expression starts.
VisGenerateAll ==
    /\ vpc = "ready"
    /\ vpc' = IF Len(vdata) = 0 THEN "done" ELSE "gen"
    /\ vpos' = IF Len(vdata) = 0 THEN 0 ELSE 1
    /\ vquizzes' = <<>>
    /\ UNCHANGED <<vdata, vlog, vdirs, vfiles>>
    /\ UNCHANGED notVis

\* The image branch of generate_quiz for a row: whether it is taken, whether
\* reading cls._image_dir or using it as a directory fails, and _decode_img.
ImageStep(row) ==
    LET used == HasImage(row.image)
        attr == clsV.image_dir
        nodir == attr = None \/ attr[1] = None
        img == decode_img(row.image, attr[1][1], row.field, row.name,
                          row.date, row.number)
    IN  [used   |-> used,
         raises |-> used /\ (nodir \/ img.raises),
         dirs   |-> IF used /\ ~nodir THEN {img.dir} ELSE {},
         files  |-> IF used /\ ~nodir THEN {img.file} ELSE {},
         path   |-> IF used /\ ~nodir /\ ~img.raises THEN Some(img.path)
                    ELSE None]

FilesAfter(files, written) ==
    IF written = {} THEN files
    ELSE WriteFile(files, CHOOSE f \in written : TRUE)

RateWarning(row) == [kind |-> "rate", percent |-> row.rate]

SkipWarning(row) ==
    [kind |-> "skip", field |-> row.field, name |-> row.name,
     date |-> row.date, number |-> row.number,
     answer |-> NormalizeAnswer(row.correct_answer),
     options |-> VisionOptions(row.queries)]

\* Mutant: a row whose answer is in no option aborts the batch.
VisGenerateQuizSkips_aborts ==
    /\ vpc = "gen"
    /\ AnswerMissing(vdata[vpos])
    /\ vlog' = Append(vlog, SkipWarning(vdata[vpos]))
    /\ vpc' = "error"
    /\ vpos' = 0
    /\ vquizzes' = <<>>
    /\ UNCHANGED <<vdata, vdirs, vfiles>>
    /\ UNCHANGED notVis

\* Mutant: the image is decoded before the answer is looked up.
VisGenerateQuizSkips_after_image ==
    /\ vpc = "gen"
    /\ AnswerMissing(vdata[vpos])
    /\ ~ImageStep(vdata[vpos]).raises
    /\ vdirs' = vdirs \cup ImageStep(vdata[vpos]).dirs
    /\ vfiles' = FilesAfter(vfiles, ImageStep(vdata[vpos]).files)
    /\ vlog' = Append(vlog, SkipWarning(vdata[vpos]))
    /\ vpc' = IF vpos = Len(vdata) THEN "done" ELSE "gen"
    /\ vpos' = IF vpos = Len(vdata) THEN 0 ELSE vpos + 1
    /\ UNCHANGED <<vdata, vquizzes>>
    /\ UNCHANGED notVis

\* One generate_quiz call finds the answer in no option: it logs a warning
\* and returns None, which generate_all_quizzes filters out.
VisGenerateQuizSkips ==
    /\ vpc = "gen"
    /\ AnswerMissing(vdata[vpos])
    /\ vlog' = Append(vlog, SkipWarning(vdata[vpos]))
    /\ vpc' = IF vpos = Len(vdata) THEN "done" ELSE "gen"
    /\ vpos' = IF vpos = Len(vdata) THEN 0 ELSE vpos + 1
    /\ UNCHANGED <<vdata, vquizzes, vdirs, vfiles>>
    /\ UNCHANGED notVis

\* One generate_quiz call returns a record.
VisGenerateQuizReturns ==
    /\ vpc = "gen"
    /\ LET row == vdata[vpos]
           im  == ImageStep(row)
       IN  /\ ~AnswerMissing(row)
           /\ ~im.raises
           /\ convert_time(row.date) # None
           /\ vquizzes' = Append(vquizzes, vision_generate_quiz(row, im.path))
           /\ vdirs' = vdirs \cup im.dirs
           /\ vfiles' = FilesAfter(vfiles, im.files)
           /\ vlog' = IF percent2float(row.rate).warned
                      THEN Append(vlog, RateWarning(row)) ELSE vlog
    /\ vpc' = IF vpos = Len(vdata) THEN "done" ELSE "gen"
    /\ vpos' = IF vpos = Len(vdata) THEN 0 ELSE vpos + 1
    /\ UNCHANGED vdata
    /\ UNCHANGED notVis

\* One generate_quiz call raises (the image cannot be stored or decoded, or
\* the date does not match): the exception leaves generate_all_quizzes.
VisGenerateQuizRaises ==
    /\ vpc = "gen"
    /\ LET row == vdata[vpos]
           im  == ImageStep(row)
       IN  /\ ~AnswerMissing(row)
           /\ im.raises \/ convert_time(row.date) = None
           /\ vdirs' = vdirs \cup im.dirs
           /\ vfiles' = FilesAfter(vfiles, im.files)
           /\ vlog' = IF ~im.raises /\ percent2float(row.rate).warned
                      THEN Append(vlog, RateWarning(row)) ELSE vlog
    /\ vpc' = "error"
    /\ vpos' = 0
    /\ vquizzes' = <<>>
    /\ UNCHANGED vdata
    /\ UNCHANGED notVis

VisNext ==
    \/ VisConfig
    \/ VisConstruct
    \/ VisSetData
    \/ VisGenerateAll
    \/ VisGenerateQuizSkips
    \/ VisGenerateQuizReturns
    \/ VisGenerateQuizRaises

SpecVision == Init /\ [][VisNext]_vars

(***************************************************************************)
(* The entry point: __main__.main.                                         *)
(***************************************************************************)
\* The words main looks for and the words its documentation names.
WordQuiz == <<"q", "u", "i", "z">>

WordQ == <<"Q">>

WordGen == <<"g", "e", "n">>

WordVision == <<"v", "i", "s", "i", "o", "n">>

WordVisionQuiz == WordVision \o <<" ">> \o WordQuiz

WordV == <<"V">>

WordConvert == <<"c", "o", "n", "v", "e", "r", "t">>

WordConv == <<"c", "o", "n", "v">>

WordC == <<"C">>

\* The pieces the commands given to main are made of.
Fragments ==
    {WordQuiz, WordQ, WordGen, WordVisionQuiz, WordV, WordConvert, WordConv,
     WordC, WordVision, <<"x">>}

\* The commands given to main: up to MaxFragments pieces, one after another.
Commands ==
    {Concat(fs) : fs \in UNION {[1..n -> Fragments] : n \in 0..MaxFragments}}

\* main(do): the functions it runs, and whether it raises ValueError.
main(do) ==
    IF Contains(do, WordQuiz) \/ Contains(do, WordQ) \/ Contains(do, WordGen)
    THEN IF Contains(do, WordVision) \/ Contains(do, WordV)
         THEN [called |-> <<"vision_quiz_gen">>, raised |-> FALSE]
         ELSE [called |-> <<"quiz_gen">>, raised |-> FALSE]
    ELSE IF Contains(do, WordConv) \/ Contains(do, WordC)
         THEN [called |-> <<"data_convert">>, raised |-> FALSE]
         ELSE [called |-> <<>>, raised |-> TRUE]

(***************************************************************************)
(* The file-format converter: FileFormatConverter.                         *)
(* A path is the sequence of its pieces: "/", "." and the names between.   *)
(***************************************************************************)
LastIndexOf(p, c) ==
    LET at == {i \in 1..Len(p) : p[i] = c}
    IN  IF at = {} THEN 0 ELSE CHOOSE i \in at : \A j \in at : j <= i

\* os.path.splitext(p)[1]: from the last dot on, when that dot comes after
\* the last separator and after a piece of the file name that is no dot.
splitext(p) ==
    LET sepIndex == LastIndexOf(p, "/")
        dotIndex == LastIndexOf(p, ".")
    IN  IF /\ dotIndex > sepIndex
           /\ \E k \in (sepIndex + 1)..(dotIndex - 1) : p[k] # "."
        THEN SubSeq(p, dotIndex, Len(p))
        ELSE <<>>

\* The reader _read_file picks for an extension ("csv" stands for ".csv").
ReaderTable ==
    [e \in {"xlsx", "xls", "csv", "txt", "json", "html", "parquet", "feather",
            "orc", "sas", "stata", "hdf", "pkl"} |->
        CASE e \in {"xlsx", "xls"} -> "read_excel"
          [] e \in {"csv", "txt"}  -> "read_csv"
          [] OTHER                 -> e]

\* The writer _save_file picks for an extension; "raise" where the branch
\* raises ValueError.
WriterTable ==
    [e \in {"xlsx", "xls", "csv", "txt", "json", "jsonl", "html", "parquet",
            "feather", "orc", "sas", "stata", "hdf", "pkl"} |->
        CASE e \in {"xlsx", "xls"}  -> "to_excel"
          [] e \in {"csv", "txt"}   -> "to_csv"
          [] e \in {"json", "jsonl"} -> "to_json"
          [] e \in {"orc", "sas"}   -> "raise"
          [] OTHER                  -> e]

\* The name of an extension: "csv" for ".csv", "" when it is no dot and name.
ExtName(ext) == IF Len(ext) = 2 THEN ext[2] ELSE ""

\* _read_file: the DataFrame kept and how the call ended; readable says
\* whether the pandas reader succeeds on the file.
read_file(df, input_path, readable) ==
    LET ext == ExtName(splitext(input_path))
    IN  IF ext \in DOMAIN ReaderTable
        THEN IF readable THEN [df |-> Some(input_path), result |-> "ok"]
             ELSE [df |-> df, result |-> "read_error"]
        ELSE [df |-> df, result |-> "unsupported_read"]

\* Mutant: the .orc and .sas branches return without writing or raising.
save_file_silent(df, files, out_path) ==
    LET ext == ExtName(splitext(out_path))
    IN  IF ext \in DOMAIN WriterTable
        THEN [files  |-> IF WriterTable[ext] = "raise" THEN files
                         ELSE {f \in files : f.path # out_path}
                                \cup {[path |-> out_path, data |-> df]},
              result |-> "ok"]
        ELSE [files |-> files, result |-> "unsupported_write"]

\* _save_file: the output files and how the call ended.  The pandas writers
\* are taken to succeed.
save_file(df, files, out_path) ==
    LET ext == ExtName(splitext(out_path))
    IN  IF ext \in DOMAIN WriterTable /\ WriterTable[ext] # "raise"
        THEN [files  |-> {f \in files : f.path # out_path}
                            \cup {[path |-> out_path, data |-> df]},
              result |-> "ok"]
        ELSE [files |-> files, result |-> "unsupported_write"]

\* The input and output paths of the calls.
InputPaths ==
    {<<"in", "/", "a", ".", "csv">>, <<"in", "/", "a", ".", "xlsx">>,
     <<"in", "/", "a", ".", "orc">>, <<"in", "/", "a", ".", "jsonl">>,
     <<"in", "/", "a", ".", "xyz">>, <<"in", ".", "csv", "/", "a">>,
     <<"in", "/", ".", "csv">>}

OutputPaths ==
    {<<"out", "/", "a", ".", "csv">>, <<"out", "/", "a", ".", "jsonl">>,
     <<"out", "/", "a", ".", "orc">>, <<"out", "/", "a", ".", "sas">>,
     <<"out", "/", "a", ".", "xyz">>, <<"out", ".", "csv", "/", "a">>,
     <<"out", "/", "a", ".", "tar", ".", "pkl">>}

\* Mutant: a failed read is swallowed and the DataFrame kept from an earlier
\* call is saved.
ConvCall_saves_after_failed_read ==
    /\ ccalls < MaxCalls
    /\ \E input_path \in InputPaths, output_path \in OutputPaths,
          readable \in BOOLEAN :
          LET r == read_file(cdf, input_path, readable)
              w == save_file(r.df, cfiles, output_path)
          IN  /\ cin' = Some(input_path)
              /\ cout' = Some(output_path)
              /\ cdf' = r.df
              /\ cfiles' = IF r.result = "ok" \/ r.df # None THEN w.files
                            ELSE cfiles
              /\ cresult' = IF r.result = "ok" THEN w.result ELSE r.result
    /\ ccalls' = ccalls + 1
    /\ UNCHANGED notConv

\* The DataFrames a caller assigns to the df property: one that was read
\* from none of the input paths.
AssignedFrames == {<<"frame">>}

\* converter.df = value: the property setter replaces the DataFrame kept.
ConvSetDf ==
    /\ \E value \in AssignedFrames : cdf' = Some(value)
    /\ UNCHANGED <<cfiles, cin, cout, cresult, ccalls>>
    /\ UNCHANGED notConv

\* FileFormatConverter.__call__(input_path, output_path)
ConvCall ==
    /\ ccalls < MaxCalls
    /\ \E input_path \in InputPaths, output_path \in OutputPaths,
          readable \in BOOLEAN :
          LET r == read_file(cdf, input_path, readable)
              w == save_file(r.df, cfiles, output_path)
          IN  /\ cin' = Some(input_path)
              /\ cout' = Some(output_path)
              /\ cdf' = r.df
              /\ cfiles' = IF r.result = "ok" THEN w.files ELSE cfiles
              /\ cresult' = IF r.result = "ok" THEN w.result ELSE r.result
    /\ ccalls' = ccalls + 1
    /\ UNCHANGED notConv

ConvNext ==
    \/ ConvCall
    \/ ConvSetDf

SpecConv == Init /\ [][ConvNext]_vars

(***************************************************************************)
(* The text functions of vision mode, called on their own.                 *)
(***************************************************************************)
\* All sequences of at most n elements of S.
SeqsUpTo(S, n) == UNION {[1..k -> S] : k \in 0..n}

\* The characters the raw answers are made of.
AnswerChars == {"a", "B", " ", "2", "."}

\* The raw answers: an enumerant followed by a text, which may end with the
\* boilerplate phrase.
RawAnswers ==
    {Enumerant(d) \o t : d \in {"1", "2", "3", "4"},
                         t \in SeqsUpTo(AnswerChars, MaxText)}
    \cup {Enumerant("3") \o <<"c">> \o PointPhrase}

\* The decimal digits of a number below 100.
DecimalText(n) ==
    IF n < 10 THEN <<Digits[n + 1]>>
    ELSE <<Digits[(n \div 10) + 1], Digits[(n % 10) + 1]>>

\* The texts between the markers of a raw option field, each with the text
\* it is once trimmed and lowercased.
SegmentTexts ==
    {[raw |-> <<"f", "o", "o">>,           clean |-> <<"f", "o", "o">>],
     [raw |-> <<"b", "a", "r">>,           clean |-> <<"b", "a", "r">>],
     [raw |-> <<" ", "F", "o", "o", " ">>, clean |-> <<"f", "o", "o">>],
     [raw |-> <<"V", "1", ".", "2">>,      clean |-> <<"v", "1", ".", "2">>],
     [raw |-> <<"3", ".", " ", "x">>,      clean |-> <<"3", ".", " ", "x">>],
     [raw |-> <<" ">>,                     clean |-> <<>>]}

\* The texts a raw option field starts with, before its first marker.
HeadTexts ==
    {[raw |-> <<>>, clean |-> <<>>],
     [raw |-> <<"Q", ":", "\n">>, clean |-> <<"q", ":">>]}

\* The raw option field "<head><n>.\n<text>\n<n+1>.\n<text>\n...".
RawOptionField(head, first, segs) ==
    head.raw \o
    Concat([i \in 1..Len(segs) |->
              DecimalText(first + i - 1) \o <<".", "\n">>
                \o segs[i].raw \o <<"\n">>])

\* The payloads handed to _decode_img: data characters and "=".
Payloads == SeqsUpTo({"Q", "="}, MaxPayload)

\* correct_answer = correct_answer.replace(...)....strip().lower()
ParseAnswer ==
    /\ pfun = "none"
    /\ \E raw \in RawAnswers :
          /\ pin' = raw
          /\ pout' = NormalizeAnswer(raw)
    /\ pfun' = "answer"
    /\ UNCHANGED notParse

\* options and labels of generate_quiz for a raw option field.
ParseOptions ==
    /\ pfun = "none"
    /\ \E head \in HeadTexts, first \in {1, 9},
          segs \in SeqsUpTo(SegmentTexts, MaxSegments) :
          LET options == VisionOptions(RawOptionField(head, first, segs))
          IN  /\ pin' = [head |-> head, first |-> first, segs |-> segs]
              /\ pout' = [text |-> options, label |-> Labels(options)]
    /\ pfun' = "options"
    /\ UNCHANGED notParse

\* The padding step of _decode_img for a payload.
PadPayload ==
    /\ pfun = "none"
    /\ \E img_byte \in Payloads :
          /\ pin' = img_byte
          /\ pout' = pad_base64(img_byte)
    /\ pfun' = "pad"
    /\ UNCHANGED notParse

ParseNext ==
    \/ ParseAnswer
    \/ ParseOptions
    \/ PadPayload

SpecParse == Init /\ [][ParseNext]_vars

(***************************************************************************)
(* Calls of the two config class methods with keyword arguments.           *)
(***************************************************************************)
\* The class attribute each argument of QuizGenerator.config is stored in.
AttrOf ==
    [yaml_path |-> "template_path", yaml_key |-> "template_key",
     change_keyword |-> "change_keyword", sheet |-> "sheet",
     num_distractors |-> "num_distractors", output_dir |-> "output_dir"]

\* The values the callers pass to QuizGenerator.config.
QConfigValues ==
    {[yaml_path |-> Some("a.yaml"), yaml_key |-> Some("key_a"),
      change_keyword |-> Some("WORD"), sheet |-> Some("Data"),
      num_distractors |-> Some(2), output_dir |-> Some("out")],
     [yaml_path |-> Some("b.yaml"), yaml_key |-> Some("key_b"),
      change_keyword |-> Some("TERM"), sheet |-> Some("Sheet2"),
      num_distractors |-> Some(4), output_dir |-> Some("out2")]}

\* The values the callers pass to VisionQuizGenerator.config.
VConfigValues ==
    {[yaml_path |-> Some("v.yaml"), sheet |-> Some("Exam"),
      output_dir |-> Some("vout"), image_output_dir |-> Some("output/img")]}

\* The keyword arguments of a call: at most MaxKwargs of the parameters.
Kwargs(values) ==
    {[n \in P |-> v[n]] :
        v \in values,
        P \in {X \in SUBSET DOMAIN (CHOOSE w \in values : TRUE) :
                 Cardinality(X) <= MaxKwargs}}

\* The arguments the method body sees: a parameter that is not passed has
\* its default value.
BindArgs(defaults, kwargs) ==
    [n \in DOMAIN defaults |->
        IF n \in DOMAIN kwargs THEN kwargs[n] ELSE defaults[n]]

\* QuizGenerator.config(**kwargs)
QConfigCall ==
    /\ \E kwargs \in Kwargs(QConfigValues) :
          /\ clsQ' = QuizGenerator_config(clsQ, BindArgs(ConfigDefaults, kwargs))
          /\ kcall' = Some([cls |-> "QuizGenerator", kwargs |-> kwargs])
    /\ UNCHANGED clsV
    /\ UNCHANGED notConfig

\* Mutant: the method configures QuizGenerator instead of cls.
VConfigCall_on_base ==
    /\ \E kwargs \in Kwargs(VConfigValues) :
          LET a == BindArgs(VisionConfigDefaults, kwargs)
          IN  /\ clsQ' = QuizGenerator_config(clsQ,
                             [ConfigDefaults EXCEPT !.yaml_path = a.yaml_path,
                                                    !.sheet = a.sheet,
                                                    !.output_dir = a.output_dir])
              /\ clsV' = [clsV EXCEPT !.image_dir = Some(a.image_output_dir)]
              /\ kcall' = Some([cls |-> "VisionQuizGenerator", kwargs |-> kwargs])
    /\ UNCHANGED notConfig

\* VisionQuizGenerator.config(**kwargs)
VConfigCall ==
    /\ \E kwargs \in Kwargs(VConfigValues) :
          /\ clsV' = VisionQuizGenerator_config(
                         BindArgs(VisionConfigDefaults, kwargs))
          /\ kcall' = Some([cls |-> "VisionQuizGenerator", kwargs |-> kwargs])
    /\ UNCHANGED clsQ
    /\ UNCHANGED notConfig

ConfigNext ==
    \/ QConfigCall
    \/ VConfigCall

SpecConfig == Init /\ [][ConfigNext]_vars

(***************************************************************************)
(* The batch entry points quiz_gen and vision_quiz_gen (__main__.py) with  *)
(* save_quizzes_to_excel.  A table row is the sequence of the <<key,       *)
(* value>> pairs of its dict; a cell is <<value>>, or <<>> for NaN.        *)
(***************************************************************************)
NaN == <<>>

\* The keys of a dict, in insertion order.
Keys(row) == [j \in 1..Len(row) |-> row[j][1]]

\* dict lookup for the DataFrame: the cell of a key, NaN when it is missing.
Cell(row, key) ==
    IF \E j \in 1..Len(row) : row[j][1] = key
    THEN Some(row[CHOOSE j \in 1..Len(row) : row[j][1] = key][2])
    ELSE NaN

RECURSIVE AppendNew(_, _)
AppendNew(cols, keys) ==
    IF keys = <<>> THEN cols
    ELSE AppendNew(IF Head(keys) \in Range(cols) THEN cols
                   ELSE Append(cols, Head(keys)),
                   Tail(keys))

\* The columns of pd.DataFrame(rows): the keys of the dicts in the order of
\* their first appearance.
RECURSIVE ColumnsOf(_)
ColumnsOf(rows) ==
    IF rows = <<>> THEN <<>>
    ELSE AppendNew(ColumnsOf(SubSeq(rows, 1, Len(rows) - 1)),
                   Keys(rows[Len(rows)]))

\* Mutant: the columns are those of the first dict only.
DataFrame_first_row_columns(rows) ==
    LET columns == IF rows = <<>> THEN <<>> ELSE Keys(rows[1])
    IN  [columns |-> columns,
         rows    |-> [i \in 1..Len(rows) |->
                        [j \in 1..Len(columns) |-> Cell(rows[i], columns[j])]]]

\* pd.DataFrame(rows) for a list of dicts.
DataFrame(rows) ==
    LET columns == ColumnsOf(rows)
    IN  [columns |-> columns,
         rows    |-> [i \in 1..Len(rows) |->
                        [j \in 1..Len(columns) |-> Cell(rows[i], columns[j])]]]

\* **{chr(65 + idx): option for idx, option in enumerate(options)}
OptionEntries(options) ==
    [i \in 1..Len(options) |-> <<Chr(65 + (i - 1)), options[i]>>]

\* The dict QuizGenerator.save_quizzes_to_excel makes of a record.
StdExportRow(quiz) ==
    <<(<<"Question", quiz.question>>),
      (<<"Answer", quiz.answer.text>>),
      (<<"Answer Key", quiz.answer.key>>)>>
    \o OptionEntries(quiz.options.text)

\* The dict VisionQuizGenerator.save_quizzes_to_excel makes of a record.
VisionExportRow(quiz) ==
    <<(<<"Vision Encoder", quiz.vision>>),
      (<<"Question", quiz.question>>),
      (<<"Figure", quiz.image>>),
      (<<"Explanation", quiz.explanation>>),
      (<<"Human Accuracy", quiz.rate>>),
      (<<"Field", quiz.field>>),
      (<<"Test", quiz.name>>),
      (<<"Date", quiz.date>>),
      (<<"Answer", quiz.answer.text>>),
      (<<"Answer Key", quiz.answer.key>>)>>
    \o OptionEntries(quiz.options.text)

\* os.path.join(self._output_dir, output_path) if self._output_dir else
\* output_path: the directory is "" when it is not joined.
OutputPath(output_dir, output_path) ==
    [output_dir |-> output_dir, output_path |-> output_path]

\* df.to_excel(path): the spreadsheet replaces one of the same path.
to_excel(books, path, table) ==
    {b \in books : b.path # path} \cup {[path |-> path, table |-> table]}

\* The typo renamefiles corrects in a file name and its correction, the
\* prefix vision_quiz_gen gives its spreadsheets.
TypoPrefix == "exam_typo_"

ExamPrefix == "exam_"

\* The arguments quiz_gen is called with.
QuizGenArgs ==
    {[input_path |-> p, num_distractors |-> n,
      template_path |-> "make_data/templates.yaml",
      yaml_key |-> "standard_quize_gen", change_keyword |-> "LOANWORD"] :
        p \in {<<"words.xlsx">>, <<"a", "/", "words.xlsx">>}, n \in {1, 2}}

\* input_path.split('/')[-1] for a path given as its pieces, "/" and the
\* names between: the last name, "" when the path ends with "/".
SplitLast(p) ==
    IF p = <<>> \/ p[Len(p)] = "/" THEN "" ELSE p[Len(p)]

\* The source tables of quiz_gen's input file (the Korean column).
BatchTables == {<<>>, <<"k1">>, <<"k1", "k2">>}

\* The arguments vision_quiz_gen is called with.
VisionGenArgs ==
    {[yaml_path |-> "templates.yaml", sheet |-> "Data",
      image_output_dir |-> "output/img"]}

\* The .xlsx files os.listdir finds in input_dir.
BatchFiles == <<"a.xlsx", "b.xlsx", "c.xlsx", "d.xlsx">>

\* The source tables of vision_quiz_gen's input files: rows with two and
\* with three options; a row that is skipped and a row with an image; a row
\* whose date does not convert; an empty sheet; a sheet whose only row is
\* skipped.
BatchVisionTables ==
    {<<BaseRow,
       [BaseRow EXCEPT !.queries = QueriesBAC,
                       !.correct_answer = Enumerant("3") \o <<"c">>]>>,
     <<[BaseRow EXCEPT !.correct_answer = <<"d">>,
                       !.image = [type |-> "str", len |-> 4]],
       [BaseRow EXCEPT !.image = [type |-> "bytes", len |-> 7]]>>,
     <<BaseRow, [BaseRow EXCEPT !.date = <<"2022", "-", "04", "-", "24">>]>>,
     <<>>,
     <<[BaseRow EXCEPT !.correct_answer = <<"d">>]>>}

\* No entry point is running: none was called, or the last one returned or
\* raised.
Idle ==
    \/ brun = "none"
    \/ brun = "quiz_gen" /\ spc = "error"
    \/ brun = "vision_quiz_gen" /\ vpc = "error"
    \/ brun = "data_convert" /\ cresult \notin {"none", "ok"}

\* quiz_gen, line 16: QuizGenerator(excel_path=input_path, ...) loads the
\* data from the sheet the class names at that moment.  What the step does
\* to all but main's own record.
QuizGenBegin ==
    /\ Idle
    /\ bruns < MaxRuns
    /\ \E args \in QuizGenArgs, kor \in BatchTables :
          /\ bargs' = Some(args)
          /\ bfile' = Some(args.input_path)
          /\ sdata' = [i \in 1..Len(kor) |-> <<ForeignWords[i], kor[i]>>]
    /\ brun' = "quiz_gen"
    /\ bruns' = bruns + 1
    /\ bsheet' = Some(clsQ.sheet)
    /\ bpath' = None
    /\ spc' = "constructed"
    /\ spos' = 0
    /\ sdistractors' = <<>>
    /\ squizzes' = <<>>
    /\ UNCHANGED <<clsQ, clsV, sarg, bpending, bbooks>>
    /\ UNCHANGED <<visVars, convVars, parseVars, configVars>>

\* quiz_gen(...) called directly.
QuizGenConstruct ==
    /\ QuizGenBegin
    /\ UNCHANGED mainVars

\* quiz_gen, line 17: generator.config(yaml_path=..., yaml_key=...,
\* change_keyword=..., num_distractors=...).
QuizGenConfig ==
    /\ brun = "quiz_gen"
    /\ spc = "constructed"
    /\ LET a == BindArgs(ConfigDefaults,
                   [yaml_path |-> Some(bargs[1].template_path),
                    yaml_key |-> Some(bargs[1].yaml_key),
                    change_keyword |-> Some(bargs[1].change_keyword),
                    num_distractors |-> Some(bargs[1].num_distractors)])
       IN  /\ clsQ' = QuizGenerator_config(clsQ, a)
           /\ sarg' = Some(a)
    /\ spc' = "configured"
    /\ UNCHANGED <<clsV, sdata, spos, sdistractors, squizzes>>
    /\ UNCHANGED <<batchVars, visVars, mainVars, convVars, parseVars, configVars>>

\* Mutant: the spreadsheet is created before the records are generated.
QuizGenSave_creates_first ==
    /\ brun = "quiz_gen"
    /\ spc = "configured"
    /\ bpath' = Some(OutputPath(clsQ.output_dir,
                                [dir |-> "output", prefix |-> "",
                                 file |-> SplitLast(bfile[1])]))
    /\ bbooks' = to_excel(bbooks, bpath'[1], DataFrame(<<>>))
    /\ spc' = IF Len(sdata) = 0 THEN "done" ELSE "gen"
    /\ spos' = IF Len(sdata) = 0 THEN 0 ELSE 1
    /\ sdistractors' = <<>>
    /\ squizzes' = <<>>
    /\ UNCHANGED <<clsQ, clsV, sarg, sdata>>
    /\ UNCHANGED <<brun, bargs, bruns, bpending, bfile, bsheet>>
    /\ UNCHANGED <<visVars, mainVars, convVars, parseVars, configVars>>

\* quiz_gen, line 19: save_quizzes_to_excel computes output_path and calls
\* generate_all_quizzes (lines 217-218).
QuizGenSave ==
    /\ brun = "quiz_gen"
    /\ spc = "configured"
    /\ bpath' = Some(OutputPath(clsQ.output_dir,
                                [dir |-> "output", prefix |-> "",
                                 file |-> SplitLast(bfile[1])]))
    /\ spc' = IF Len(sdata) = 0 THEN "done" ELSE "gen"
    /\ spos' = IF Len(sdata) = 0 THEN 0 ELSE 1
    /\ sdistractors' = <<>>
    /\ squizzes' = <<>>
    /\ UNCHANGED <<clsQ, clsV, sarg, sdata>>
    /\ UNCHANGED <<brun, bargs, bruns, bpending, bfile, bsheet, bbooks>>
    /\ UNCHANGED <<visVars, mainVars, convVars, parseVars, configVars>>

\* save_quizzes_to_excel, lines 219-231: the rows, the DataFrame and
\* to_excel; quiz_gen returns and the generator is dropped.
QuizGenWrite ==
    /\ brun = "quiz_gen"
    /\ spc = "done"
    /\ bbooks' = to_excel(bbooks, bpath[1],
                    DataFrame([k \in 1..Len(squizzes) |-> StdExportRow(squizzes[k])]))
    /\ brun' = "none"
    /\ bargs' = None
    /\ bfile' = None
    /\ bsheet' = None
    /\ bpath' = None
    /\ spc' = "new"
    /\ spos' = 0
    /\ sdata' = <<>>
    /\ sdistractors' = <<>>
    /\ squizzes' = <<>>
    /\ UNCHANGED <<clsQ, clsV, sarg, bruns, bpending>>
    /\ UNCHANGED <<visVars, mainVars, convVars, parseVars, configVars>>

\* vision_quiz_gen, line 36: the .xlsx files of input_dir are listed, in
\* the arbitrary order of os.listdir; with none the function returns at once.
\* What the step does to all but main's own record.
VisionGenBegin ==
    /\ Idle
    /\ bruns < MaxRuns
    /\ \E args \in VisionGenArgs, n \in 0..MaxFiles :
          /\ bargs' = IF n = 0 THEN None ELSE Some(args)
          /\ bpending' \in InjSeqs(Range(SubSeq(BatchFiles, 1, n)), n)
          /\ brun' = IF n = 0 THEN "none" ELSE "vision_quiz_gen"
    /\ bruns' = bruns + 1
    /\ bfile' = None
    /\ bsheet' = None
    /\ bpath' = None
    /\ vpc' = "next"
    /\ vpos' = 0
    /\ vdata' = <<>>
    /\ vquizzes' = <<>>
    /\ UNCHANGED <<vlog, vdirs, vfiles, bbooks>>
    /\ UNCHANGED <<stdVars, convVars, parseVars, configVars>>

\* vision_quiz_gen(...) called directly.
VisionGenStart ==
    /\ VisionGenBegin
    /\ UNCHANGED mainVars

\* vision_quiz_gen, line 38: VisionQuizGenerator(excel_path=...) for the next
\* file loads the data from the sheet the class names at that moment.
VisionGenConstruct ==
    /\ brun = "vision_quiz_gen"
    /\ vpc = "next"
    /\ bpending # <<>>
    /\ \E table \in BatchVisionTables :
          vdata' = [i \in 1..Len(table) |->
                      [table[i] EXCEPT !.number = i,
                                       !.question = VisionQuestions[i]]]
    /\ bfile' = Some(Head(bpending))
    /\ bpending' = Tail(bpending)
    /\ bsheet' = Some(VisionAttrs.sheet)
    /\ bpath' = None
    /\ vpc' = "constructed"
    /\ vpos' = 0
    /\ vquizzes' = <<>>
    /\ UNCHANGED <<vlog, vdirs, vfiles, brun, bargs, bruns, bbooks>>
    /\ UNCHANGED <<stdVars, mainVars, convVars, parseVars, configVars>>

\* vision_quiz_gen, line 40: generator.config(yaml_path=..., sheet=...,
\* image_output_dir=...).
VisionGenConfig ==
    /\ brun = "vision_quiz_gen"
    /\ vpc = "constructed"
    /\ clsV' = VisionQuizGenerator_config(
                  BindArgs(VisionConfigDefaults,
                    [yaml_path |-> Some(bargs[1].yaml_path),
                     sheet |-> Some(bargs[1].sheet),
                     image_output_dir |-> Some(bargs[1].image_output_dir)]))
    /\ vpc' = "configured"
    /\ UNCHANGED <<clsQ, sarg, sdata, spc, spos, sdistractors, squizzes>>
    /\ UNCHANGED <<vdata, vpos, vquizzes, vlog, vdirs, vfiles>>
    /\ UNCHANGED <<batchVars, mainVars, convVars, parseVars, configVars>>

\* vision_quiz_gen, line 42: save_quizzes_to_excel computes output_path and
\* calls generate_all_quizzes (lines 547-548).
VisionGenSave ==
    /\ brun = "vision_quiz_gen"
    /\ vpc = "configured"
    /\ bpath' = Some(OutputPath(VisionAttrs.output_dir,
                        [dir |-> "output", prefix |-> ExamPrefix,
                         file |-> bfile[1]]))
    /\ vpc' = IF Len(vdata) = 0 THEN "done" ELSE "gen"
    /\ vpos' = IF Len(vdata) = 0 THEN 0 ELSE 1
    /\ vquizzes' = <<>>
    /\ UNCHANGED <<vdata, vlog, vdirs, vfiles>>
    /\ UNCHANGED <<brun, bargs, bruns, bpending, bfile, bsheet, bbooks>>
    /\ UNCHANGED <<stdVars, mainVars, convVars, parseVars, configVars>>

\* save_quizzes_to_excel, lines 549-568: the rows, the DataFrame and
\* to_excel; the loop goes on with the next file or vision_quiz_gen returns.
VisionGenWrite ==
    /\ brun = "vision_quiz_gen"
    /\ vpc = "done"
    /\ bbooks' = to_excel(bbooks, bpath[1],
                    DataFrame([k \in 1..Len(vquizzes) |->
                                 VisionExportRow(vquizzes[k])]))
    /\ brun' = IF bpending = <<>> THEN "none" ELSE brun
    /\ bargs' = IF bpending = <<>> THEN None ELSE bargs
    /\ bfile' = None
    /\ bsheet' = None
    /\ bpath' = None
    /\ vpc' = "next"
    /\ vpos' = 0
    /\ vdata' = <<>>
    /\ vquizzes' = <<>>
    /\ UNCHANGED <<vlog, vdirs, vfiles, bruns, bpending>>
    /\ UNCHANGED <<stdVars, mainVars, convVars, parseVars, configVars>>

\* os.listdir(input_dir) for input_dir = "output": the spreadsheets written
\* there.
OutputListing(books) ==
    {b \in books : b.path.output_dir = "" /\ b.path.output_path.dir = "output"}

\* file_path.replace(typo, correction)
RenamedPath(path) ==
    [path EXCEPT !.output_path.prefix = IF @ = TypoPrefix THEN ExamPrefix ELSE @]

\* functions.renamefiles(): every file of output/ is renamed to its path
\* with the typo corrected; os.rename replaces a file of the new path.
RenameFiles ==
    /\ Idle
    /\ LET listed == OutputListing(bbooks)
           moved  == {b \in listed : RenamedPath(b.path) # b.path}
       IN  bbooks' =
             {b \in bbooks : b \notin moved
                              /\ \A m \in moved : RenamedPath(m.path) # b.path}
             \cup {[m EXCEPT !.path = RenamedPath(m.path)] : m \in moved}
    /\ UNCHANGED <<brun, bargs, bruns, bpending, bfile, bsheet, bpath>>
    /\ UNCHANGED <<stdVars, visVars, mainVars, convVars, parseVars, configVars>>

\* pd.read_excel of a spreadsheet df.to_excel wrote: the columns and the
\* cells, an empty text or None read back as NaN.
read_excel(table) ==
    [columns |-> table.columns,
     rows    |-> [i \in 1..Len(table.rows) |->
                    [j \in 1..Len(table.columns) |->
                       IF /\ table.columns[j] \in {"Figure", "Explanation"}
                          /\ table.rows[i][j] = Some(<<>>)
                       THEN NaN ELSE table.rows[i][j]]]]

\* pd.concat([a, b], ignore_index=True): the columns of a, then the new
\* ones of b; the rows of a, then those of b, NaN where a column is missing.
concat(a, b) ==
    LET columns == AppendNew(a.columns, b.columns)
        RowIn(t, r) ==
            [j \in 1..Len(columns) |->
               IF columns[j] \in Range(t.columns)
               THEN r[CHOOSE k \in 1..Len(t.columns) :
                        t.columns[k] = columns[j]]
               ELSE NaN]
    IN  [columns |-> columns,
         rows    |-> [i \in 1..Len(a.rows) |-> RowIn(a, a.rows[i])]
                     \o [i \in 1..Len(b.rows) |-> RowIn(b, b.rows[i])]]

\* final_df after the loop of concat_excel over the frames read.
RECURSIVE ConcatAll(_)
ConcatAll(frames) ==
    IF Len(frames) = 1 THEN frames[1]
    ELSE concat(ConcatAll(SubSeq(frames, 1, Len(frames) - 1)),
                frames[Len(frames)])

\* functions.concat_excel(): the spreadsheets of output/ whose name starts
\* with the prefix are read in the order of os.listdir, one that cannot be
\* read is left out, and their concatenation is written to
\* "output/3. Domain.xlsx"; nothing is written when none was read.
ConcatExcel ==
    /\ Idle
    /\ LET listed == {b \in OutputListing(bbooks) :
                         b.path.output_path.prefix = ExamPrefix}
       IN  \E order \in InjSeqs(listed, Cardinality(listed)),
              unreadable \in SUBSET listed :
              LET Readable(b) == b \notin unreadable
                  read == SelectSeq(order, Readable)
                  frames == [i \in 1..Len(read) |-> read_excel(read[i].table)]
              IN  bbooks' =
                    IF frames = <<>> THEN bbooks
                    ELSE to_excel(bbooks,
                           OutputPath("", [dir |-> "output", prefix |-> "",
                                           file |-> "3. Domain.xlsx"]),
                           ConcatAll(frames))
    /\ UNCHANGED <<brun, bargs, bruns, bpending, bfile, bsheet, bpath>>
    /\ UNCHANGED <<stdVars, visVars, mainVars, convVars, parseVars, configVars>>

\* The arguments data_convert is called with: an output type, or none and
\* the last name of output_dir in its place.
DataConvertArgs ==
    {[input_dir |-> <<"in">>, output_dir |-> <<"out">>, output_type |-> "csv"],
     [input_dir |-> <<"in">>, output_dir |-> <<"out">>, output_type |-> ""],
     [input_dir |-> <<"in">>, output_dir |-> <<"data", "/", "csv">>,
      output_type |-> ""]}

\* The files os.listdir can find in input_dir.
ConvertFiles ==
    <<(<<"a", ".", "csv">>), (<<"README">>), (<<"b", ".", "xyz">>),
      (<<"c", ".", "tar", ".", "xlsx">>)>>

\* os.path.join(dir, name) for a directory that ends with no separator.
PathJoin(dir, name) == dir \o <<"/">> \o name

\* os.path.splitext(p)[0]
SplitextRoot(p) == SubSeq(p, 1, Len(p) - Len(splitext(p)))

\* data_convert, line 48: the output path of a file.
ConvertOutputPath(args, file) ==
    PathJoin(args.output_dir,
             SplitextRoot(file)
               \o <<".", IF args.output_type # "" THEN args.output_type
                         ELSE SplitLast(args.output_dir)>>)

\* data_convert, lines 45-46: a new FileFormatConverter, and the files of
\* input_dir with a dot in their name, in the order of os.listdir; with
\* none the function returns at once.  What the step does to all but main's
\* own record.
DataConvertBegin ==
    /\ Idle
    /\ bruns < MaxRuns
    /\ \E args \in DataConvertArgs, n \in 0..MaxFiles :
          LET found == {f \in Range(SubSeq(ConvertFiles, 1, n)) :
                          "." \in Range(f)}
          IN  /\ bpending' \in InjSeqs(found, Cardinality(found))
              /\ bargs' = IF found = {} THEN None ELSE Some(args)
              /\ brun' = IF found = {} THEN "none" ELSE "data_convert"
    /\ bruns' = bruns + 1
    /\ bfile' = None
    /\ bsheet' = None
    /\ bpath' = None
    /\ cdf' = None
    /\ cin' = None
    /\ cout' = None
    /\ cresult' = "none"
    /\ ccalls' = 0
    /\ UNCHANGED <<cfiles, bbooks>>
    /\ UNCHANGED <<stdVars, visVars, parseVars, configVars>>

\* data_convert(...) called directly.
DataConvertStart ==
    /\ DataConvertBegin
    /\ UNCHANGED mainVars

\* data_convert, lines 47-50: the next file is converted; an exception of
\* the converter leaves the loop and the function.
DataConvertFile ==
    /\ brun = "data_convert"
    /\ cresult \in {"none", "ok"}
    /\ bpending # <<>>
    /\ \E readable \in BOOLEAN :
          LET input_path == PathJoin(bargs[1].input_dir, Head(bpending))
              output_path == ConvertOutputPath(bargs[1], Head(bpending))
              r == read_file(cdf, input_path, readable)
              w == save_file(r.df, cfiles, output_path)
              result == IF r.result = "ok" THEN w.result ELSE r.result
              returns == result = "ok" /\ Tail(bpending) = <<>>
          IN  /\ cin' = Some(input_path)
              /\ cout' = Some(output_path)
              /\ cdf' = r.df
              /\ cfiles' = IF r.result = "ok" THEN w.files ELSE cfiles
              /\ cresult' = result
              /\ brun' = IF returns THEN "none" ELSE brun
              /\ bargs' = IF returns THEN None ELSE bargs
    /\ ccalls' = ccalls + 1
    /\ bpending' = Tail(bpending)
    /\ UNCHANGED <<bruns, bfile, bsheet, bpath, bbooks>>
    /\ UNCHANGED <<stdVars, visVars, mainVars, parseVars, configVars>>

\* One call of main: it records the command and runs the function it
\* picks, whose first step is part of this step and whose further steps
\* follow; or it raises ValueError.
Main ==
    /\ mdo = None
    /\ \E do \in Commands :
          /\ mdo' = Some(do)
          /\ mcalled' = main(do).called
          /\ mraised' = main(do).raised
          /\ \/ main(do).called = <<"quiz_gen">> /\ QuizGenBegin
             \/ main(do).called = <<"vision_quiz_gen">> /\ VisionGenBegin
             \/ main(do).called = <<"data_convert">> /\ DataConvertBegin
             \/ main(do).raised /\ UNCHANGED notMain

BatchNext ==
    \/ QuizGenConstruct
    \/ QuizGenConfig
    \/ QuizGenSave
    \/ StdGenerateQuiz
    \/ StdGenerateQuizRaises
    \/ QuizGenWrite
    \/ VisionGenStart
    \/ VisionGenConstruct
    \/ VisionGenConfig
    \/ VisionGenSave
    \/ VisGenerateQuizSkips
    \/ VisGenerateQuizReturns
    \/ VisGenerateQuizRaises
    \/ VisionGenWrite

SpecBatch == Init /\ [][BatchNext]_vars

\* The output directory over the batch runs and the runs of the script
\* functions.py on what they wrote.
OutputNext ==
    \/ BatchNext
    \/ DataConvertStart
    \/ DataConvertFile
    \/ RenameFiles
    \/ ConcatExcel

SpecOutput == Init /\ [][OutputNext]_vars

\* The process started with a command: main and the steps of the function
\* it runs.
MainNext ==
    \/ Main
    \/ QuizGenConfig
    \/ QuizGenSave
    \/ StdGenerateQuiz
    \/ StdGenerateQuizRaises
    \/ QuizGenWrite
    \/ VisionGenConstruct
    \/ VisionGenConfig
    \/ VisionGenSave
    \/ VisGenerateQuizSkips
    \/ VisGenerateQuizReturns
    \/ VisGenerateQuizRaises
    \/ VisionGenWrite
    \/ DataConvertFile

SpecMain == Init /\ [][MainNext]_vars

(***************************************************************************)
(* Properties of standard mode.                                            *)
(***************************************************************************)
\* The number of pool entries different from the answer.
EligibleCount(data, answer) ==
    Cardinality({i \in 1..Len(data) : data[i][2] # answer})

DistinctTerms(data) == Cardinality({data[i][2] : i \in 1..Len(data)})

StdRecordWellFormed(q) ==
    /\ Len(q.options.label) = Len(q.options.text)
    /\ \A i \in 1..Len(q.options.label) : q.options.label[i] = Letters[i]
    /\ Cardinality({i \in 1..Len(q.options.text) :
                        q.options.text[i] = q.answer.text}) = 1
    /\ \A i \in 1..Len(q.options.text) :
          q.options.text[i] = q.answer.text => q.options.label[i] = q.answer.key

\* C1: in every record generate_quiz returns in standard mode the labels are
\* A, B, C, ... in order, one per option, exactly one option's text is the
\* correct answer's text, and answer.key is the label of that option.
C1_StdLabelsAndKey ==
    \A k \in 1..Len(squizzes) : StdRecordWellFormed(squizzes[k])

\* C1's case: a three-option record whose correct answer the shuffle put last.
C1_Witness ==
    \E k \in 1..Len(squizzes) :
        /\ Len(squizzes[k].options.text) = 3
        /\ squizzes[k].answer.key = "C"

\* C2: the distractors _get_distractors returns never include the correct
\* answer and never hold the same text twice, also when a Korean term occurs
\* in several source rows.
C2_DistractorsDistinct ==
    Len(squizzes) > 0 =>
        /\ squizzes[Len(squizzes)].answer.text \notin Range(sdistractors)
        /\ \A i, j \in 1..Len(sdistractors) :
              sdistractors[i] = sdistractors[j] => i = j

\* C3: when the requested distractor count exceeds the number of pool
\* entries different from the correct answer, the generate_quiz call fails
\* and the error leaves generate_all_quizzes (nothing is returned); no
\* record has fewer options than requested.
C3_InsufficientPoolRaises ==
    [][/\ (spc = "gen" /\ clsQ.num_distractors >
                             EligibleCount(sdata, sdata[spos][2]))
            => (spc' = "error" /\ squizzes' = <<>>)
       /\ \A k \in 1..Len(squizzes') :
            Len(squizzes'[k].options.text) >= clsQ'.num_distractors + 1]_vars

\* C3's case: a three-row table whose batch failed with two distractors
\* requested.
C3_Witness ==
    /\ spc = "error"
    /\ Len(sdata) = 3
    /\ clsQ.num_distractors = 2

\* C7: for a table with enough distinct terms and a distractor count n >= 0
\* passed to config, generate_all_quizzes returns one record per source row,
\* in row order, each with n + 1 options.
C7_OneRecordPerRow ==
    (/\ spc \in {"done", "error"}
     /\ sarg # None
     /\ sarg[1].num_distractors # None
     /\ DistinctTerms(sdata) >= sarg[1].num_distractors[1] + 1)
    => /\ spc = "done"
       /\ Len(squizzes) = Len(sdata)
       /\ \A k \in 1..Len(squizzes) :
            /\ squizzes[k].answer.text = sdata[k][2]
            /\ Len(squizzes[k].options.text) = sarg[1].num_distractors[1] + 1

(***************************************************************************)
(* Properties of vision mode.                                              *)
(***************************************************************************)
\* C4: in every record VisionQuizGenerator.generate_quiz emits, answer.key
\* is the label of an option whose text equals answer.text.
C4_VisionKeyMatchesAnswer ==
    \A k \in 1..Len(vquizzes) :
        \E i \in 1..Len(vquizzes[k].options.text) :
            /\ vquizzes[k].options.label[i] = vquizzes[k].answer.key
            /\ vquizzes[k].options.text[i] = vquizzes[k].answer.text

\* C4's case: a record whose answer, given as "3. c[...]", is the third
\* option.
C4_Witness ==
    \E k \in 1..Len(vquizzes) :
        /\ vquizzes[k].answer.key = "C"
        /\ vquizzes[k].answer.text = <<"c">>

\* The rows whose normalized answer equals one of their parsed options.
RowsWithAnswer ==
    LET Found(i) == NormalizeAnswer(vdata[i].correct_answer)
                        \in Range(VisionOptions(vdata[i].queries))
    IN  SelectSeq([i \in 1..Len(vdata) |-> i], Found)

SkipsLogged == Cardinality({k \in 1..Len(vlog) : vlog[k].kind = "skip"})

C5_BatchResult ==
    vpc = "done" =>
        /\ Len(vquizzes) = Len(RowsWithAnswer)
        /\ \A k \in 1..Len(vquizzes) :
              vquizzes[k].question = vdata[RowsWithAnswer[k]].question
        /\ Len(vquizzes) = Len(vdata) - SkipsLogged

C5_SkipStep ==
    (/\ vpc = "gen"
     /\ NormalizeAnswer(vdata[vpos].correct_answer)
            \notin Range(VisionOptions(vdata[vpos].queries)))
    => (vpc' \in {"gen", "done"} /\ vquizzes' = vquizzes)

\* C5: a vision row whose normalized answer equals none of its parsed
\* options yields no record and does not abort the batch; the batch returns
\* the records of the other rows in source-row order, as many as there are
\* input rows minus skipped rows.
C5_SkipDoesNotAbort == []C5_BatchResult /\ [][C5_SkipStep]_vars

\* C5's case: a finished two-row batch whose first row was skipped.
C5_Witness ==
    /\ vpc = "done"
    /\ Len(vdata) = 2
    /\ SkipsLogged = 1
    /\ Len(vquizzes) = 1
    /\ vquizzes[1].question = "q2"

\* C6: in every record emitted in vision mode the correct answer's text is
\* the text of exactly one option.
C6_VisionAnswerOnce ==
    \A k \in 1..Len(vquizzes) :
        Cardinality({i \in 1..Len(vquizzes[k].options.text) :
            vquizzes[k].options.text[i] = vquizzes[k].answer.text}) = 1

\* C8: in every record emitted in vision mode the rate lies in [0, 1]
\* (0 to 100 hundredths).
C8_RateInUnitInterval ==
    \A k \in 1..Len(vquizzes) :
        vquizzes[k].rate >= 0 /\ vquizzes[k].rate <= 100

\* The source row of a record: the row with the record's question.
RowOf(q) == CHOOSE i \in 1..Len(vdata) : vdata[i].question = q.question

\* C15: in every record emitted in vision mode, vision is 1 exactly when
\* image is non-empty, and image is non-empty exactly when the row's image
\* cell is a non-empty str or bytes payload.
C15_VisionFlagMatchesImage ==
    \A k \in 1..Len(vquizzes) :
        LET cell == vdata[RowOf(vquizzes[k])].image
        IN  /\ vquizzes[k].vision \in {0, 1}
            /\ vquizzes[k].vision = 1 <=> vquizzes[k].image # None
            /\ vquizzes[k].image # None
                  <=> (cell.type \in {"str", "bytes"} /\ cell.len > 0)

\* C15's case: a batch with a record made from a bytes payload and a record
\* made from a row without image.
C15_Witness ==
    /\ \E k \in 1..Len(vquizzes) :
          /\ vquizzes[k].vision = 1
          /\ vdata[RowOf(vquizzes[k])].image.type = "bytes"
    /\ \E k \in 1..Len(vquizzes) :
          /\ vquizzes[k].vision = 0
          /\ vdata[RowOf(vquizzes[k])].image.type = "float"

\* C17: the generate_quiz call of a row whose answer matches no option
\* writes no image file, creates no directory and adds no record; it only
\* logs the skip warning.
C17_SkipHasNoSideEffect ==
    [][(/\ vpc = "gen"
        /\ NormalizeAnswer(vdata[vpos].correct_answer)
               \notin Range(VisionOptions(vdata[vpos].queries)))
       => (/\ vfiles' = vfiles
           /\ vdirs' = vdirs
           /\ vquizzes' = vquizzes
           /\ Len(vlog') = Len(vlog) + 1
           /\ vlog'[Len(vlog')].kind = "skip")]_vars

\* C17's case: with the image directory configured, a row that carries an
\* image payload was skipped and the batch ended with no file and no
\* directory.
C17_Witness ==
    /\ vpc = "done"
    /\ clsV.image_dir # None
    /\ \E i \in 1..Len(vdata) :
          /\ vdata[i].image.type = "str" /\ vdata[i].image.len = 4
          /\ NormalizeAnswer(vdata[i].correct_answer)
                \notin Range(VisionOptions(vdata[i].queries))
    /\ SkipsLogged >= 1
    /\ vfiles = {}
    /\ vdirs = {}

(***************************************************************************)
(* Properties of the entry point and of the converter.                     *)
(***************************************************************************)
\* C9: main runs standard generation for "quiz", "Q" and "gen", vision
\* generation for "vision quiz" and "V", conversion for "convert", "conv"
\* and "C", one function per call, and raises for a command that holds none
\* of these words.
C9_DocumentedDispatch ==
    mdo # None =>
        /\ mdo[1] \in {WordQuiz, WordQ, WordGen}
              => (mcalled = <<"quiz_gen">> /\ ~mraised)
        /\ mdo[1] \in {WordVisionQuiz, WordV}
              => (mcalled = <<"vision_quiz_gen">> /\ ~mraised)
        /\ mdo[1] \in {WordConvert, WordConv, WordC}
              => (mcalled = <<"data_convert">> /\ ~mraised)
        /\ Len(mcalled) <= 1
        /\ mraised <=> mcalled = <<>>
        /\ (\A w \in {WordQuiz, WordQ, WordGen, WordVisionQuiz, WordV,
                      WordConvert, WordConv, WordC} : ~Contains(mdo[1], w))
              => mraised

C10_Step ==
    ccalls' = ccalls + 1 =>
        LET rext == ExtName(splitext(cin'[1]))
            wext == ExtName(splitext(cout'[1]))
        IN  /\ rext \notin DOMAIN ReaderTable
                => (cresult' = "unsupported_read" /\ cfiles' = cfiles)
            /\ (cresult' \notin {"unsupported_read", "read_error"}
                /\ (wext \notin DOMAIN WriterTable \/ wext \in {"orc", "sas"}))
                => (cresult' = "unsupported_write" /\ cfiles' = cfiles)

\* C10: a read of a path whose extension is not in the reader table, and a
\* write to a path whose extension is not in the writer table or is .orc or
\* .sas, raise the unsupported-format error, and the call writes no file.
C10_UnsupportedFormatRaises == [][C10_Step]_vars

\* C10's case: after a file was written, a call that read its input and
\* was asked for .orc output raised and left the files alone.
C10_Witness ==
    /\ ccalls = 2
    /\ cresult = "unsupported_write"
    /\ cout = Some(<<"out", "/", "a", ".", "orc">>)
    /\ cfiles # {}
    /\ \A f \in cfiles : f.path # cout[1]

C21_Step ==
    ccalls' = ccalls + 1 =>
        /\ cresult' \in {"unsupported_read", "read_error"} => cfiles' = cfiles
        /\ \A f \in cfiles' \ cfiles :
              /\ f.path = cout'[1]
              /\ f.data = Some(cin'[1])
              /\ cresult' = "ok"
        /\ (cdf # None /\ cdf # cin') =>
              [path |-> cout'[1], data |-> cdf] \notin cfiles' \ cfiles

\* C21: across the calls on one FileFormatConverter a call writes an output
\* file only with the data read from its own input path in that call: when
\* the read of the input fails nothing is written, a file the call writes
\* is at its output path and holds the data of its input path, and the
\* DataFrame kept from an earlier call is never written.
C21_WritesOnlyOwnRead == [][C21_Step]_vars

\* C21's case: the converter holds the DataFrame of an earlier call, whose
\* output is on disk; the read of another input failed, and no file is at
\* the writable output path of the failed call.
C21_Witness ==
    /\ ccalls = 2
    /\ cresult = "read_error"
    /\ cdf # None
    /\ cdf # cin
    /\ \E f \in cfiles : f.data = cdf
    /\ LET wext == ExtName(splitext(cout[1]))
       IN  wext \in DOMAIN WriterTable /\ WriterTable[wext] # "raise"
    /\ \A f \in cfiles : f.path # cout[1]

(***************************************************************************)
(* Properties of the text functions of vision mode.                        *)
(***************************************************************************)
\* C13: for a raw answer made of one leading enumerant followed by a text t
\* (without the boilerplate phrase), the normalized answer is t trimmed and
\* lowercased, also when t holds a digit 1-4 followed by ". ".
C13_OnlyLeadingEnumerant ==
    (pfun = "answer" /\ ~Contains(SubSeq(pin, 4, Len(pin)), PointPhrase))
        => pout = Lower(Strip(SubSeq(pin, 4, Len(pin))))

\* The segments of a raw option field, head first, trimmed and lowercased,
\* without the empty ones.
ExpectedOptions(in) ==
    LET all == <<in.head.clean>> \o [i \in 1..Len(in.segs) |-> in.segs[i].clean]
        NonEmpty(t) == t # <<>>
    IN  SelectSeq(all, NonEmpty)

\* C14: the options parsed from a raw option field are its segments between
\* the markers "<digits>.\n", trimmed and lowercased, without the empty ones,
\* in their order of appearance, labelled A, B, C, ... in that order.
C14_OptionsInSourceOrder ==
    pfun = "options" =>
        /\ pout.text = ExpectedOptions(pin)
        /\ Len(pout.label) = Len(pout.text)
        /\ \A i \in 1..Len(pout.label) : pout.label[i] = Letters[i]

\* C14's case: "1.\nfoo\n2.\nbar\n" yields foo and bar, labelled A and B.
C14_Witness ==
    /\ pfun = "options"
    /\ pin.head.raw = <<>> /\ pin.first = 1
    /\ Len(pin.segs) = 2
    /\ pin.segs[1].raw = <<"f", "o", "o">>
    /\ pin.segs[2].raw = <<"b", "a", "r">>
    /\ pout = [text |-> <<(<<"f", "o", "o">>), (<<"b", "a", "r">>)>>,
               label |-> <<"A", "B">>]

\* C16: the padded payload has the smallest length that is a multiple of 4
\* and at least the payload's, begins with the payload, continues with "="
\* only, and is the payload itself when its length is a multiple of 4.
C16_PaddedToMultipleOfFour ==
    pfun = "pad" =>
        /\ Len(pout) % 4 = 0
        /\ Len(pout) >= Len(pin)
        /\ Len(pout) < Len(pin) + 4
        /\ SubSeq(pout, 1, Len(pin)) = pin
        /\ \A i \in (Len(pin) + 1)..Len(pout) : pout[i] = "="
        /\ Len(pin) % 4 = 0 => pout = pin

\* C16's case: a payload of five characters padded to eight.
C16_Witness ==
    /\ pfun = "pad"
    /\ Len(pin) = 5
    /\ Len(pout) = 8

(***************************************************************************)
(* Properties of the config class methods.                                 *)
(***************************************************************************)
C19_Step ==
    (kcall' # None /\ kcall'[1].cls = "QuizGenerator") =>
        \A n \in DOMAIN AttrOf :
            IF n \in DOMAIN kcall'[1].kwargs
            THEN clsQ'[AttrOf[n]] = kcall'[1].kwargs[n][1]
            ELSE clsQ'[AttrOf[n]] = clsQ[AttrOf[n]]

\* C19: a call of QuizGenerator.config sets each setting it passes to the
\* passed value and leaves every setting it omits unchanged.
C19_ConfigChangesOnlyPassed == [][C19_Step]_vars

\* C20: a call of VisionQuizGenerator.config never changes an attribute of
\* QuizGenerator, whatever config calls came before.
C20_VisionConfigKeepsBase ==
    [][(kcall' # None /\ kcall'[1].cls = "VisionQuizGenerator")
          => clsQ' = clsQ]_vars

\* C20's case: after QuizGenerator.config set the sheet, a call of
\* VisionQuizGenerator.config passed another sheet: each class has its own.
C20_Witness ==
    /\ kcall # None
    /\ kcall[1].cls = "VisionQuizGenerator"
    /\ "sheet" \in DOMAIN kcall[1].kwargs
    /\ clsQ.sheet = "Data"
    /\ clsV.sheet = Some("Exam")

(***************************************************************************)
(* Properties of the batch entry points.                                   *)
(***************************************************************************)
\* The source data of the running entry point is loaded and its output is
\* not yet written.
StdRunLoaded ==
    brun = "quiz_gen" /\ spc \in {"constructed", "configured", "gen", "done"}

VisionRunLoaded ==
    brun = "vision_quiz_gen" /\ vpc \in {"constructed", "configured", "gen", "done"}

\* The configuration the generator of each mode reads from its class.
ConfigOf(attrs) ==
    [template_path |-> attrs.template_path, sheet |-> attrs.sheet,
     num_distractors |-> attrs.num_distractors, output_dir |-> attrs.output_dir]

C11_Step ==
    /\ StdRunLoaded => ConfigOf(clsQ)' = ConfigOf(clsQ)
    /\ VisionRunLoaded => ConfigOf(VisionAttrs)' = ConfigOf(VisionAttrs)

\* C11: in a batch run started from quiz_gen or vision_quiz_gen the
\* class-level configuration (template path, sheet name, distractor count,
\* output directory) is set before the source data is loaded and keeps its
\* value until the output is written: no step between the load and the write
\* changes it.
C11_ConfigSetBeforeLoad == [][C11_Step]_vars

\* The table the exported spreadsheet must hold for the records: the
\* metadata cells of each record, then its options under A, B, ... up to
\* the largest option count, the trailing cells empty.
MaxOptionCount(records) ==
    IF records = <<>> THEN 0
    ELSE CHOOSE w \in {Len(records[k].options.text) : k \in 1..Len(records)} :
           \A k \in 1..Len(records) : Len(records[k].options.text) <= w

\* The columns the table must have: the metadata columns, then A, B, ...
ClaimedColumns(records, meta) ==
    meta \o [j \in 1..MaxOptionCount(records) |-> Letters[j]]

\* One row per record, in record order, each with its metadata cells and
\* its options under their labels.
RowsMatch(table, records, meta, MetaCells(_)) ==
    LET w == MaxOptionCount(records)
    IN  /\ Len(table.rows) = Len(records)
        /\ \A i \in 1..Len(records) :
              LET options == records[i].options
              IN  /\ Len(table.rows[i]) = Len(meta) + w
                  /\ SubSeq(table.rows[i], 1, Len(meta)) = MetaCells(records[i])
                  /\ \A j \in 1..w :
                        table.rows[i][Len(meta) + j] =
                          IF j <= Len(options.text)
                          THEN Some(options.text[
                                 CHOOSE k \in 1..Len(options.label) :
                                   options.label[k] = Letters[j]])
                          ELSE NaN

\* The table as the claim describes it, for any list of records.
TableAsClaimed(table, records, meta, MetaCells(_)) ==
    /\ table.columns = ClaimedColumns(records, meta)
    /\ RowsMatch(table, records, meta, MetaCells)

\* The table as described for at least one record; for no record a table
\* without rows and without columns.
TableMatches(table, records, meta, MetaCells(_)) ==
    /\ table.columns = IF records = <<>> THEN <<>>
                       ELSE ClaimedColumns(records, meta)
    /\ RowsMatch(table, records, meta, MetaCells)

StdMeta == <<"Question", "Answer", "Answer Key">>

StdMetaCells(quiz) ==
    <<Some(quiz.question), Some(quiz.answer.text), Some(quiz.answer.key)>>

VisionMeta ==
    <<"Vision Encoder", "Question", "Figure", "Explanation", "Human Accuracy",
      "Field", "Test", "Date", "Answer", "Answer Key">>

VisionMetaCells(quiz) ==
    <<Some(quiz.vision), Some(quiz.question), Some(quiz.image),
      Some(quiz.explanation), Some(quiz.rate), Some(quiz.field),
      Some(quiz.name), Some(quiz.date), Some(quiz.answer.text),
      Some(quiz.answer.key)>>

BookAt(books, path) == (CHOOSE b \in books : b.path = path).table

C12_ClaimedStep ==
    /\ (brun = "quiz_gen" /\ spc = "done" /\ spc' = "new") =>
          TableAsClaimed(BookAt(bbooks', bpath[1]), squizzes, StdMeta,
                         StdMetaCells)
    /\ (brun = "vision_quiz_gen" /\ vpc = "done" /\ vpc' = "next") =>
          TableAsClaimed(BookAt(bbooks', bpath[1]), vquizzes, VisionMeta,
                         VisionMetaCells)

\* C12 as stated: every exported table, also one of no records, has one row
\* per record, in record order, with the fixed metadata columns followed by
\* one column per option label up to the largest option count, row i's
\* column for label L holding the option of record i labelled L and the
\* trailing option columns of a shorter record empty.
C12_AlwaysMetadataColumns == [][C12_ClaimedStep]_vars

C12_Step ==
    /\ (brun = "quiz_gen" /\ spc = "done" /\ spc' = "new") =>
          TableMatches(BookAt(bbooks', bpath[1]), squizzes, StdMeta, StdMetaCells)
    /\ (brun = "vision_quiz_gen" /\ vpc = "done" /\ vpc' = "next") =>
          TableMatches(BookAt(bbooks', bpath[1]), vquizzes, VisionMeta,
                       VisionMetaCells)

\* C12, amended: when there is at least one record the exported table has
\* one row per record, in record order, with the fixed metadata columns
\* followed by one column per option label; the number of option columns is
\* the largest option count among the records, row i's column for label L
\* holds the option of record i labelled L, and a record with fewer options
\* leaves its trailing option columns empty.  When there is no record (an
\* empty sheet, or every row skipped) the exported table has no row and no
\* column, not even the metadata columns.
C12_ExportedTableShape == [][C12_Step]_vars

\* A spreadsheet of vision records with two and with three options: three
\* option columns, the first row's column C empty; and a spreadsheet
\* exported from no record, without rows and columns.
C12_Witness ==
    /\ \E b \in bbooks :
          /\ Len(b.table.rows) = 2
          /\ b.table.columns = VisionMeta \o <<"A", "B", "C">>
          /\ b.table.rows[1][Len(VisionMeta) + 3] = NaN
          /\ b.table.rows[2][Len(VisionMeta) + 3] # NaN
    /\ \E b \in bbooks : b.table.rows = <<>> /\ b.table.columns = <<>>

\* The spreadsheets save_quizzes_to_excel writes: all but the one
\* concat_excel makes of them.
SavedBooks(books) ==
    {b \in books : b.path.output_path.file # "3. Domain.xlsx"}

C18_Step ==
    /\ SavedBooks(bbooks)' # SavedBooks(bbooks) =>
          \/ brun = "quiz_gen" /\ spc = "done" /\ Len(squizzes) = Len(sdata)
          \/ brun = "vision_quiz_gen" /\ vpc = "done"
    /\ (spc # "error" /\ spc' = "error") => bbooks' = bbooks
    /\ (vpc # "error" /\ vpc' = "error") => bbooks' = bbooks

\* C18: save_quizzes_to_excel is all-or-nothing for its spreadsheet in both
\* modes: the spreadsheets change only in a step taken when every record of
\* the source table has been generated, and a step in which generating a
\* record raises neither creates nor overwrites a spreadsheet.
C18_AllOrNothing == [][C18_Step]_vars

\* A second quiz_gen run has raised while the spreadsheet the first run wrote
\* at the same output path is still there with its rows.
C18_Witness ==
    /\ brun = "quiz_gen"
    /\ spc = "error"
    /\ bpath # None
    /\ \E b \in bbooks : b.path = bpath[1] /\ Len(b.table.rows) > 0


====
